---------------------------- MODULE Spec2Model ----------------------------
(***************************************************************************)
(* EcoTrack-Analytics (src/main.py): a batch pipeline that loads shipment  *)
(* records from a CSV file, accumulates a carbon footprint and suggests    *)
(* alternatives for expensive transport modes.                             *)
(*                                                                         *)
(* Strings whose characters the program inspects (distance, weight,        *)
(* transport_mode) are sequences of one-character strings.  Python floats  *)
(* are IEEE-754 binary64 values, modelled exactly: a finite float is a     *)
(* sign, a 53-bit significand held as a little-endian sequence of limbs,   *)
(* and a binary exponent; every operation rounds to nearest, ties to even. *)
(* Overflow, subnormals, inf and nan lie outside the inputs enumerated.    *)
(***************************************************************************)
EXTENDS Integers, Sequences, FiniteSets, TLC

(***************************************************************************)
(* Natural numbers of arbitrary size: little-endian limbs, no leading zero *)
(* limb, <<>> is zero.                                                     *)
(***************************************************************************)
LimbBase == 32768

LimbBits == 15

RECURSIVE Pow2(_)
Pow2(n) == IF n = 0 THEN 1 ELSE 2 * Pow2(n - 1)

RECURSIVE BNorm(_)
BNorm(a) ==
    IF a = <<>> THEN <<>>
    ELSE IF a[Len(a)] = 0 THEN BNorm(SubSeq(a, 1, Len(a) - 1))
    ELSE a

RECURSIVE BFromNat(_)
BFromNat(n) ==
    IF n = 0 THEN <<>> ELSE <<n % LimbBase>> \o BFromNat(n \div LimbBase)

Limb(a, i) == IF i <= Len(a) THEN a[i] ELSE 0

RECURSIVE BAddFrom(_, _, _, _)
BAddFrom(a, b, i, carry) ==
    IF i > Len(a) /\ i > Len(b)
    THEN (IF carry = 0 THEN <<>> ELSE <<carry>>)
    ELSE LET s == Limb(a, i) + Limb(b, i) + carry
         IN  <<s % LimbBase>> \o BAddFrom(a, b, i + 1, s \div LimbBase)

BAdd(a, b) == BAddFrom(a, b, 1, 0)

\* a - b for a >= b
RECURSIVE BSubFrom(_, _, _, _)
BSubFrom(a, b, i, borrow) ==
    IF i > Len(a) THEN <<>>
    ELSE LET d == Limb(a, i) - Limb(b, i) - borrow
         IN  IF d < 0
             THEN <<d + LimbBase>> \o BSubFrom(a, b, i + 1, 1)
             ELSE <<d>> \o BSubFrom(a, b, i + 1, 0)

BSub(a, b) == BNorm(BSubFrom(a, b, 1, 0))

\* -1, 0, 1 as a < b, a = b, a > b
RECURSIVE BCmpFrom(_, _, _)
BCmpFrom(a, b, i) ==
    IF i = 0 THEN 0
    ELSE IF a[i] < b[i] THEN -1
    ELSE IF a[i] > b[i] THEN 1
    ELSE BCmpFrom(a, b, i - 1)

BCmp(a, b) ==
    IF Len(a) < Len(b) THEN -1
    ELSE IF Len(a) > Len(b) THEN 1
    ELSE BCmpFrom(a, b, Len(a))

\* a * k for a limb-sized k
RECURSIVE BMulLimbFrom(_, _, _, _)
BMulLimbFrom(a, k, i, carry) ==
    IF i > Len(a) THEN (IF carry = 0 THEN <<>> ELSE <<carry>>)
    ELSE LET p == a[i] * k + carry
         IN  <<p % LimbBase>> \o BMulLimbFrom(a, k, i + 1, p \div LimbBase)

BMulLimb(a, k) == BNorm(BMulLimbFrom(a, k, 1, 0))

\* a * LimbBase
ShiftLimb(a) == IF a = <<>> THEN <<>> ELSE <<0>> \o a

RECURSIVE BMulFrom(_, _, _)
BMulFrom(a, b, i) ==
    IF i > Len(b) THEN <<>>
    ELSE BAdd(BMulLimb(a, b[i]), ShiftLimb(BMulFrom(a, b, i + 1)))

BMul(a, b) == BMulFrom(a, b, 1)

\* <<quotient, remainder>> of a by a limb-sized d, from the top limb down
RECURSIVE BDivLimbFrom(_, _, _, _)

PutLimb(rest, limb) == <<rest[1] \o <<limb>>, rest[2]>>

DivideLimb(a, d, i, cur) ==
    PutLimb(BDivLimbFrom(a, d, i - 1, cur % d), cur \div d)

BDivLimbFrom(a, d, i, rem) ==
    IF i = 0 THEN <<<<>>, rem>>
    ELSE DivideLimb(a, d, i, rem * LimbBase + a[i])

NormQuotient(qr) == <<BNorm(qr[1]), qr[2]>>

BDivLimb(a, d) == NormQuotient(BDivLimbFrom(a, d, Len(a), 0))

RECURSIVE Zeros(_)
Zeros(n) == IF n = 0 THEN <<>> ELSE <<0>> \o Zeros(n - 1)

BShl(a, n) ==
    IF a = <<>> THEN <<>>
    ELSE Zeros(n \div LimbBits) \o BMulLimb(a, Pow2(n % LimbBits))

BShr(a, n) ==
    IF Len(a) <= n \div LimbBits THEN <<>>
    ELSE BDivLimb(SubSeq(a, n \div LimbBits + 1, Len(a)), Pow2(n % LimbBits))[1]

RECURSIVE NatBits(_)
NatBits(n) == IF n = 0 THEN 0 ELSE 1 + NatBits(n \div 2)

BitLen(a) ==
    IF a = <<>> THEN 0 ELSE (Len(a) - 1) * LimbBits + NatBits(a[Len(a)])

BOdd(a) == a # <<>> /\ a[1] % 2 = 1

(***************************************************************************)
(* binary64: [sign, man, exp] stands for (-1)^sign * man * 2^exp, man of   *)
(* exactly Precision bits, or man = <<>> (and exp = 0) for zero.           *)
(***************************************************************************)
Precision == 53

FZero(sign) == [sign |-> sign, man |-> <<>>, exp |-> 0]

\* a significand that rounding up may have carried to Precision + 1 bits
FNormalized(sign, q, e) ==
    IF BitLen(q) > Precision
    THEN [sign |-> sign, man |-> BShr(q, 1), exp |-> e + 1]
    ELSE [sign |-> sign, man |-> q, exp |-> e]

\* q with the bits dropped below it compared to one half (c: -1, 0, 1)
FRoundTie(sign, q, c, e) ==
    FNormalized(sign,
                IF c > 0 \/ (c = 0 /\ BOdd(q)) THEN BAdd(q, <<1>>) ELSE q,
                e)

\* n = q * 2^r + the r bits dropped
FRoundDropped(sign, n, e, r, q) ==
    FRoundTie(sign, q, BCmp(BSub(n, BShl(q, r)), BShl(<<1>>, r - 1)), e + r)

FRoundBits(sign, n, e, len) ==
    IF len <= Precision
    THEN [sign |-> sign, man |-> BShl(n, Precision - len),
          exp |-> e - (Precision - len)]
    ELSE FRoundDropped(sign, n, e, len - Precision, BShr(n, len - Precision))

\* (-1)^sign * n * 2^e rounded to nearest, ties to even
FRound(sign, n, e) ==
    IF n = <<>> THEN FZero(sign) ELSE FRoundBits(sign, n, e, BitLen(n))

\* float(k) for an integer k (exact while |k| < 2^53)
FFromInt(k) ==
    FRound(IF k < 0 THEN 1 ELSE 0, BFromNat(IF k < 0 THEN -k ELSE k), 0)

\* <<quotient, remainder>> as a quotient with a sticky bit below it
WithSticky(qr) ==
    BAdd(BShl(qr[1], 1), IF qr[2] = 0 THEN <<>> ELSE <<1>>)

FRatioShifted(num, den, shift) ==
    FRound(0, WithSticky(BDivLimb(BShl(BFromNat(num), shift), den)), -(shift + 1))

\* the float literal num/den (den limb-sized), correctly rounded: the
\* quotient is taken with more than Precision + 1 bits and a sticky bit
FFromRatio(num, den) == FRatioShifted(num, den, Precision + 2 + NatBits(den))

FMul(a, b) ==
    IF a.man = <<>> \/ b.man = <<>> THEN FZero((a.sign + b.sign) % 2)
    ELSE FRound((a.sign + b.sign) % 2, BMul(a.man, b.man), a.exp + b.exp)

\* the sum of two non-zero floats whose significands na, nb are aligned to
\* the exponent e; c compares na to nb
FAddAligned(a, b, na, nb, c, e) ==
    IF a.sign # b.sign /\ c = 0 THEN FZero(0)
    ELSE FRound(IF a.sign = b.sign \/ c > 0 THEN a.sign ELSE b.sign,
                IF a.sign = b.sign THEN BAdd(na, nb)
                ELSE IF c > 0 THEN BSub(na, nb) ELSE BSub(nb, na),
                e)

FAddAt(a, b, na, nb, e) == FAddAligned(a, b, na, nb, BCmp(na, nb), e)

FAddNonZero(a, b, e) ==
    FAddAt(a, b, BShl(a.man, a.exp - e), BShl(b.man, b.exp - e), e)

FAdd(a, b) ==
    IF a.man = <<>> /\ b.man = <<>>
    THEN FZero(IF a.sign = 1 /\ b.sign = 1 THEN 1 ELSE 0)
    ELSE IF a.man = <<>> THEN b
    ELSE IF b.man = <<>> THEN a
    ELSE FAddNonZero(a, b, IF a.exp < b.exp THEN a.exp ELSE b.exp)

FNeg(a) == [a EXCEPT !.sign = 1 - a.sign]

\* Python's ==, < and <= on floats (the two zeros are equal)
FEq(a, b) == (a.man = <<>> /\ b.man = <<>>) \/ a = b

Positive(d) == d.man # <<>> /\ d.sign = 0

FLt(a, b) == Positive(FAdd(b, FNeg(a)))

FLe(a, b) == FEq(a, b) \/ FLt(a, b)


RECURSIVE BToNatFrom(_, _)
BToNatFrom(a, i) ==
    IF i > Len(a) THEN 0 ELSE a[i] + LimbBase * BToNatFrom(a, i + 1)

BToNat(a) == BToNatFrom(a, 1)

\* n / 2^r to the nearest integer, ties to even; q is n shifted right by r
RoundedQuotient(q, c) ==
    IF c > 0 \/ (c = 0 /\ BOdd(q)) THEN BToNat(q) + 1 ELSE BToNat(q)

RoundedShift(n, r, q) ==
    RoundedQuotient(q, BCmp(BSub(n, BShl(q, r)), BShl(<<1>>, r - 1)))

HundredthsOf(n, exp) ==
    IF exp >= 0 THEN BToNat(BShl(n, exp)) ELSE RoundedShift(n, -exp, BShr(n, -exp))

\* f"{v:.2f}": the number of hundredths printed, i.e. v * 100 rounded to the
\* nearest integer (ties to even) from the exact binary value; sign apart
FormatHundredths(v) ==
    [negative |-> v.sign = 1,
     hundredths |-> IF v.man = <<>> THEN 0
                    ELSE HundredthsOf(BMulLimb(v.man, 100), v.exp)]

(***************************************************************************)
(* Python values held in a record's fields: a str is a sequence of         *)
(* one-character strings; None (csv.DictReader's value for a field missing *)
(* from a short row) is the one sequence whose element is not a character. *)
(***************************************************************************)
None == <<"None">>

UpperLetters ==
    <<"A", "B", "C", "D", "E", "F", "G", "H", "I", "J", "K", "L", "M",
      "N", "O", "P", "Q", "R", "S", "T", "U", "V", "W", "X", "Y", "Z">>

LowerLetters ==
    <<"a", "b", "c", "d", "e", "f", "g", "h", "i", "j", "k", "l", "m",
      "n", "o", "p", "q", "r", "s", "t", "u", "v", "w", "x", "y", "z">>

LowerChar(c) ==
    IF \E i \in 1..Len(UpperLetters) : UpperLetters[i] = c
    THEN LowerLetters[CHOOSE i \in 1..Len(UpperLetters) : UpperLetters[i] = c]
    ELSE c

\* str.lower()
Lower(s) == [i \in 1..Len(s) |-> LowerChar(s[i])]

Digits == <<"0", "1", "2", "3", "4", "5", "6", "7", "8", "9">>

IsDigit(c) == \E i \in 1..Len(Digits) : Digits[i] = c

DigitValue(c) == (CHOOSE i \in 1..Len(Digits) : Digits[i] = c) - 1

RECURSIVE DecimalValue(_)
DecimalValue(s) ==
    IF s = <<>> THEN 0
    ELSE 10 * DecimalValue(SubSeq(s, 1, Len(s) - 1)) + DigitValue(s[Len(s)])

Signed(x) == x # <<>> /\ x[1] \in {"-", "+"}

Unsigned(x) == IF Signed(x) THEN SubSeq(x, 2, Len(x)) ELSE x

FSigned(negative, magnitude) == IF negative THEN FNeg(magnitude) ELSE magnitude

ParseDigits(negative, digits) ==
    IF digits = <<>> \/ \E i \in 1..Len(digits) : ~IsDigit(digits[i])
    THEN [ok |-> FALSE, raised |-> "ValueError"]
    ELSE [ok |-> TRUE, val |-> FSigned(negative, FFromInt(DecimalValue(digits)))]

\* float(x) for None and for the strings enumerated here: an optional sign
\* and decimal digits parse, None raises TypeError, anything else ValueError
\* (fractions, exponents, padding, inf and nan are not among the inputs)
ParseFloat(x) ==
    IF x = None THEN [ok |-> FALSE, raised |-> "TypeError"]
    ELSE ParseDigits(Signed(x) /\ x[1] = "-", Unsigned(x))

\* dict.get(key, default)
Get(record, key, default) ==
    IF key \in DOMAIN record THEN record[key] ELSE default

truck == <<"t", "r", "u", "c", "k">>
train == <<"t", "r", "a", "i", "n">>
ship  == <<"s", "h", "i", "p">>
plane == <<"p", "l", "a", "n", "e">>

emissions_factors ==
    [m \in {truck, train, ship, plane} |->
        CASE m = truck -> FFromRatio(2, 100)
          [] m = train -> FFromRatio(15, 1000)
          [] m = ship  -> FFromRatio(1, 100)
          [] m = plane -> FFromRatio(5, 100)]

\* the default of emissions_factors.get: 0.02
default_factor == FFromRatio(2, 100)

get_emissions_factor_case_sensitive(mode) ==
    IF mode = None THEN [ok |-> FALSE, raised |-> "AttributeError"]
    ELSE [ok |-> TRUE,
          val |-> IF mode \in DOMAIN emissions_factors
                  THEN emissions_factors[mode]
                  ELSE default_factor]

\* get_emissions_factor(mode): None has no lower()
get_emissions_factor(mode) ==
    IF mode = None THEN [ok |-> FALSE, raised |-> "AttributeError"]
    ELSE [ok |-> TRUE,
          val |-> IF Lower(mode) \in DOMAIN emissions_factors
                  THEN emissions_factors[Lower(mode)]
                  ELSE default_factor]

\* footprint = distance * weight * emissions_factor, unless one of the three
\* raised
Footprint(distance, weight, emissions_factor) ==
    IF ~distance.ok THEN distance
    ELSE IF ~weight.ok THEN weight
    ELSE IF ~emissions_factor.ok THEN emissions_factor
    ELSE [ok |-> TRUE,
          val |-> FMul(FMul(distance.val, weight.val), emissions_factor.val)]

\* the try body of calculate_carbon_footprint for one record: the footprint
\* it adds, or the exception raised before the += is reached (the factor is
\* looked up only once distance and weight have parsed; a lookup that is not
\* reached raises nothing)
RecordFootprint(record) ==
    Footprint(ParseFloat(Get(record, "distance", <<"0">>)),
              ParseFloat(Get(record, "weight", <<"0">>)),
              get_emissions_factor(Get(record, "transport_mode", truck)))

\* the exceptions the try body can raise, all subclasses of Exception
Exceptions == {"ValueError", "TypeError", "AttributeError"}

CatchesValueErrorOnly(raised) == raised = "ValueError"

\* except ValueError ... except Exception: what the loop's handlers catch
CalculatorCatches(raised) == raised = "ValueError" \/ raised \in Exceptions

AssignFootprint(total, footprint) ==
    IF footprint.ok
    THEN [total |-> footprint.val, escaped |-> ""]
    ELSE [total |-> total, escaped |-> ""]

CalculateRecordAssigning(total, record) ==
    AssignFootprint(total, RecordFootprint(record))

\* self.carbon_footprint += footprint, or the except clauses: both log and
\* continue; an exception neither catches would leave the loop
AddFootprint(total, footprint) ==
    IF footprint.ok
    THEN [total |-> FAdd(total, footprint.val), escaped |-> ""]
    ELSE IF CalculatorCatches(footprint.raised)
    THEN [total |-> total, escaped |-> ""]
    ELSE [total |-> total, escaped |-> footprint.raised]

\* one iteration of the loop: the total afterwards, and the exception that
\* leaves the loop ("" when the iteration ends or a handler continues)
CalculateRecord(total, record) == AddFootprint(total, RecordFootprint(record))

RECURSIVE calculate_carbon_footprint(_, _)

\* the loop after an iteration
ContinueLoop(step, rest) ==
    IF step.escaped # "" THEN step
    ELSE calculate_carbon_footprint(step.total, rest)

\* calculate_carbon_footprint(): the whole loop, from self.carbon_footprint
calculate_carbon_footprint(total, data) ==
    IF data = <<>> THEN [total |-> total, escaped |-> ""]
    ELSE ContinueLoop(CalculateRecord(total, Head(data)), Tail(data))

expensive_modes == {plane}

Suggestion(record) ==
    "Consider alternative transport for order ID " \o Get(record, "order_id", "None")

RECURSIVE analyze_data_prepending(_)
analyze_data_prepending(data) ==
    IF data = <<>> THEN <<>>
    ELSE analyze_data_prepending(Tail(data))
         \o (IF Get(Head(data), "transport_mode", None) \in expensive_modes
             THEN <<Suggestion(Head(data))>> ELSE <<>>)

\* analyze_data(): the suggestions returned.  Its except clause (whose last
\* line reads "throw" for "raise") is entered only if the loop raises, which
\* it does not for the rows csv.DictReader returns.
RECURSIVE analyze_data(_)
analyze_data(data) ==
    IF data = <<>> THEN <<>>
    ELSE (IF Get(Head(data), "transport_mode", None) \in expensive_modes
          THEN <<Suggestion(Head(data))>> ELSE <<>>)
         \o analyze_data(Tail(data))

NotFoundMessage == "The specified data file could not be found."

LoadErrorMessage == "An error occurred while loading data."

load_data_keeping_rows_read(file, supply_chain_data) ==
    CASE file.status = "missing" ->
            [supply_chain_data |-> supply_chain_data, raised |-> NotFoundMessage]
      [] file.status = "unreadable" ->
            [supply_chain_data |-> file.rows, raised |-> LoadErrorMessage]
      [] OTHER ->
            [supply_chain_data |-> file.rows, raised |-> ""]

load_data_swallowing(file, supply_chain_data) ==
    IF file.status = "ok"
    THEN [supply_chain_data |-> file.rows, raised |-> ""]
    ELSE [supply_chain_data |-> supply_chain_data, raised |-> ""]

\* load_data(): the records the object holds afterwards and the message of
\* the exception raised ("" when it returns); the list is assigned only once
\* every row has been read
load_data(file, supply_chain_data) ==
    CASE file.status = "missing" ->
            [supply_chain_data |-> supply_chain_data, raised |-> NotFoundMessage]
      [] file.status = "unreadable" ->
            [supply_chain_data |-> supply_chain_data, raised |-> LoadErrorMessage]
      [] OTHER ->
            [supply_chain_data |-> file.rows, raised |-> ""]

(***************************************************************************)
(* The input files enumerated.  A row's fields are distance, weight and    *)
(* transport_mode; its order_id is its row number.                         *)
(***************************************************************************)
MaxRecords == 3

MaxCalls == 2

ModeStrings ==
    { <<"T", "R", "A", "I", "N">>, <<"S", "h", "i", "p">>,
      <<"P", "L", "A", "N", "E">>, <<>>, <<"b", "i", "k", "e">> }

Row(distance, weight, mode) ==
    [distance |-> distance, weight |-> weight, transport_mode |-> mode]

RowBodies ==
    { Row(<<"1">>, <<"1">>, m) : m \in ModeStrings }
    \cup { Row(<<"1", "0", "0">>, <<"2">>, truck),
           Row(<<"5", "0">>, <<"1">>, plane),
           Row(<<"a", "b", "c">>, <<"5">>, train),
           Row(<<"1">>, <<>>, truck),
           Row(<<"-", "2">>, <<"1">>, truck),
           Row(<<"3">>, <<"1">>, None) }

WithOrderId(body, i) ==
    [order_id |-> ToString(i), distance |-> body.distance,
     weight |-> body.weight, transport_mode |-> body.transport_mode]

RowSequences ==
    UNION { { [i \in 1..n |-> WithOrderId(b[i], i)] : b \in [1..n -> RowBodies] }
            : n \in 0..MaxRecords }

Files ==
    { [status |-> "missing", rows |-> <<>>] }
    \cup { [status |-> st, rows |-> rows] :
             st \in {"ok", "unreadable"}, rows \in RowSequences }

VARIABLES
    pc,                 \* main's stage
    file,               \* the file at data_file
    supply_chain_data,  \* self.supply_chain_data
    carbon_footprint,   \* self.carbon_footprint
    idx,                \* records the running loop of the calculator has done
    lookups,            \* the calls of get_emissions_factor made: mode, result
    suggestions,        \* what analyze_data returned last
    output,             \* the lines printed
    exit_status,        \* <<>> while the process runs, <<status>> once it ended
    calls               \* completed invocations of calculate_carbon_footprint

vars == <<pc, file, supply_chain_data, carbon_footprint, idx, lookups,
          suggestions, output, exit_status, calls>>

\* EcoTrackAnalytics.__init__ has run
Init ==
    /\ pc = "Idle"
    /\ file \in Files
    /\ supply_chain_data = <<>>
    /\ carbon_footprint = FZero(0)
    /\ idx = 0
    /\ lookups = <<>>
    /\ suggestions = <<>>
    /\ output = <<>>
    /\ exit_status = <<>>
    /\ calls = 0

Lookup(mode) == <<[mode |-> mode, result |-> get_emissions_factor(mode)]>>

\* the call of get_emissions_factor a record's iteration makes, if it gets
\* that far
RecordLookups(record) ==
    IF ParseFloat(Get(record, "distance", <<"0">>)).ok
       /\ ParseFloat(Get(record, "weight", <<"0">>)).ok
    THEN Lookup(Get(record, "transport_mode", truck))
    ELSE <<>>

RECURSIVE DataLookups(_)
DataLookups(data) ==
    IF data = <<>> THEN <<>>
    ELSE RecordLookups(Head(data)) \o DataLookups(Tail(data))

\* main's except clause: one line, and main returns
ErrorLine(message) ==
    [kind |-> "error", text |-> "An error occurred in processing: " \o message]

\* main's report after analyze_data returned
RECURSIVE SuggestionLines(_)
SuggestionLines(s) ==
    IF s = <<>> THEN <<>>
    ELSE <<[kind |-> "suggestion", text |-> Head(s)]>> \o SuggestionLines(Tail(s))

ReportLines(s, total) ==
    (IF s # <<>>
     THEN <<[kind |-> "header", text |-> "Suggestions to reduce carbon footprint:"]>>
          \o SuggestionLines(s)
     ELSE <<>>)
    \o <<[kind |-> "total", text |-> FormatHundredths(total)]>>

(***************************************************************************)
(* main(): one run                                                         *)
(***************************************************************************)
\* where main stands, and for the calculator's loop whether records remain
AtStart == pc = "Idle"

AtLoad == pc = "Loading"

InLoop == pc = "Calculating" /\ idx < Len(supply_chain_data)

LoopOver == pc = "Calculating" /\ idx = Len(supply_chain_data)

AtAnalyze == pc = "Analyzing"

Start ==
    /\ AtStart
    /\ pc' = "Loading"
    /\ supply_chain_data' = <<>>
    /\ carbon_footprint' = FZero(0)
    /\ UNCHANGED <<file, idx, lookups, suggestions, output, exit_status, calls>>

\* load_data returned, or raised into main's except clause
Loaded(loaded) ==
    /\ supply_chain_data' = loaded.supply_chain_data
    /\ IF loaded.raised = ""
       THEN /\ pc' = "Calculating"
            /\ idx' = 0
            /\ UNCHANGED <<output, exit_status>>
       ELSE /\ pc' = "Failed"
            /\ output' = Append(output, ErrorLine(loaded.raised))
            /\ exit_status' = <<0>>
            /\ UNCHANGED idx

LoadData ==
    /\ AtLoad
    /\ Loaded(load_data(file, supply_chain_data))
    /\ UNCHANGED <<file, carbon_footprint, lookups, suggestions, calls>>

\* an iteration ended, or raised into main's except clause
Stepped(step) ==
    /\ carbon_footprint' = step.total
    /\ IF step.escaped = ""
       THEN UNCHANGED <<pc, output, exit_status>>
       ELSE /\ pc' = "Failed"
            /\ output' = Append(output, ErrorLine(step.escaped))
            /\ exit_status' = <<0>>

CalculateStep ==
    /\ InLoop
    /\ Stepped(CalculateRecord(carbon_footprint, supply_chain_data[idx + 1]))
    /\ idx' = idx + 1
    /\ lookups' = lookups \o RecordLookups(supply_chain_data[idx + 1])
    /\ UNCHANGED <<file, supply_chain_data, suggestions, calls>>

CalculateReturn ==
    /\ LoopOver
    /\ pc' = "Analyzing"
    /\ calls' = calls + 1
    /\ UNCHANGED <<file, supply_chain_data, carbon_footprint, idx, lookups,
                   suggestions, output, exit_status>>

AnalyzeAndReport ==
    /\ AtAnalyze
    /\ suggestions' = analyze_data(supply_chain_data)
    /\ output' = output \o ReportLines(suggestions', carbon_footprint)
    /\ pc' = "Reported"
    /\ exit_status' = <<0>>
    /\ UNCHANGED <<file, supply_chain_data, carbon_footprint, idx, lookups, calls>>

Next == Start \/ LoadData \/ CalculateStep \/ CalculateReturn \/ AnalyzeAndReport

Spec == Init /\ [][Next]_vars

(***************************************************************************)
(* An EcoTrackAnalytics object whose methods a client calls in any order,  *)
(* catching what load_data raises.                                         *)
(***************************************************************************)
CallLoadData ==
    /\ pc = "Idle"
    /\ supply_chain_data' = load_data(file, supply_chain_data).supply_chain_data
    /\ UNCHANGED <<pc, file, carbon_footprint, idx, lookups, suggestions,
                   output, exit_status, calls>>

CallCalculate ==
    /\ pc = "Idle"
    /\ calls < MaxCalls
    /\ carbon_footprint' =
           calculate_carbon_footprint(carbon_footprint, supply_chain_data).total
    /\ idx' = Len(supply_chain_data)
    /\ lookups' = lookups \o DataLookups(supply_chain_data)
    /\ calls' = calls + 1
    /\ UNCHANGED <<pc, file, supply_chain_data, suggestions, output, exit_status>>

CallAnalyze ==
    /\ pc = "Idle"
    /\ suggestions' = analyze_data(supply_chain_data)
    /\ UNCHANGED <<pc, file, supply_chain_data, carbon_footprint, idx, lookups,
                   output, exit_status, calls>>

ObjectNext == CallLoadData \/ CallCalculate \/ CallAnalyze

ObjectSpec == Init /\ [][ObjectNext]_vars

(***************************************************************************)
(* Properties                                                              *)
(***************************************************************************)
IsString(x) == x # None

\* some action of a run can be taken: one of the guards holds (what follows
\* a guard in an action assigns, and never blocks)
CanStep == AtStart \/ AtLoad \/ InLoop \/ LoopOver \/ AtAnalyze

Numeric(x) == ParseFloat(x).ok

NonNegative(x) == Numeric(x) /\ FLe(FZero(0), ParseFloat(x).val)

\* distance and weight parse as non-negative numbers, the mode is a string
WellFormed(record) ==
    /\ NonNegative(record.distance)
    /\ NonNegative(record.weight)
    /\ IsString(record.transport_mode)

\* distance x weight x factor of one record, on its own
Contribution(record) ==
    FMul(FMul(ParseFloat(record.distance).val, ParseFloat(record.weight).val),
         get_emissions_factor(record.transport_mode).val)

\* the contributions added up from 0.0 in the order of the sequence
RECURSIVE SumInOrder(_)
SumInOrder(data) ==
    IF data = <<>> THEN FZero(0)
    ELSE FAdd(SumInOrder(SubSeq(data, 1, Len(data) - 1)),
              Contribution(data[Len(data)]))

Permuted(data, p) == [i \in 1..Len(data) |-> data[p[i]]]

CalculatedOnce == pc \in {"Analyzing", "Reported"} /\ calls = 1

AllWellFormed(data) == \A i \in 1..Len(data) : WellFormed(data[i])

SameForEveryOrder(data) ==
    \A p \in Permutations(1..Len(data)) :
        FEq(SumInOrder(Permuted(data, p)), SumInOrder(data))

Counted(record) ==
    /\ Numeric(record.distance)
    /\ Numeric(record.weight)
    /\ IsString(record.transport_mode)

\* what one iteration of the calculator's loop does to carbon_footprint
IterationAdds(record) ==
    carbon_footprint' = IF Counted(record)
                        THEN FAdd(carbon_footprint, Contribution(record))
                        ELSE carbon_footprint

\* C2: a record whose distance or weight is non-numeric adds nothing to
\* carbon_footprint while every other record, before and after it, adds its
\* full distance x weight x factor; no exception leaves the calculator, so a
\* run that loaded its file never fails: it has a next step until it is
\* Reported.
C2_MalformedRecordSkipped ==
    /\ [][idx' = idx + 1 => IterationAdds(supply_chain_data[idx + 1])]_vars
    /\ [](pc \in {"Analyzing", "Reported"} =>
            FEq(carbon_footprint,
                SumInOrder(SelectSeq(supply_chain_data, Counted))))
    /\ [](file.status = "ok" => pc # "Failed")
    /\ [](pc \in {"Calculating", "Analyzing"} => CanStep)

C2_Witness ==
    /\ pc = "Reported"
    /\ Len(supply_chain_data) = 3
    /\ WellFormed(supply_chain_data[1])
    /\ supply_chain_data[2].distance = <<"a", "b", "c">>
    /\ WellFormed(supply_chain_data[3])
    /\ FEq(carbon_footprint,
           FAdd(Contribution(supply_chain_data[1]), Contribution(supply_chain_data[3])))
    /\ FLt(Contribution(supply_chain_data[1]), carbon_footprint)

\* the factor the table gives a lower-case mode name, in thousandths
Thousandths(name) ==
    CASE name = truck -> 20
      [] name = train -> 15
      [] name = ship  -> 10
      [] name = plane -> 50
      [] OTHER        -> 20

\* C3: get_emissions_factor returns a factor for every mode string: 0.02,
\* 0.015, 0.01, 0.05 when the lower-cased mode is truck, train, ship, plane,
\* and the truck factor 0.02 for every other string, the empty one included.
C3_FactorTotalCaseInsensitive ==
    \A i \in 1..Len(lookups) :
        IsString(lookups[i].mode) =>
            /\ lookups[i].result.ok
            /\ lookups[i].result.val
                   = FFromRatio(Thousandths(Lower(lookups[i].mode)), 1000)

C3_Witness ==
    /\ Len(lookups) = 3
    /\ lookups[1].mode = <<"T", "R", "A", "I", "N">>
    /\ lookups[1].result.val = FFromRatio(15, 1000)
    /\ lookups[2].mode = <<>>
    /\ lookups[2].result.val = FFromRatio(2, 100)
    /\ lookups[3].mode = <<"b", "i", "k", "e">>
    /\ lookups[3].result.val = FFromRatio(2, 100)

Expensive == {i \in 1..Len(supply_chain_data) :
                 supply_chain_data[i].transport_mode = plane}

Rank(i) == Cardinality({j \in Expensive : j <= i})

\* C4: analyze_data returns one suggestion per loaded record whose
\* transport_mode is in the expensive-mode set {plane}, naming its order_id,
\* in the order of the records, and nothing for any other record (so the
\* empty list when no record matches).
C4_OneSuggestionPerExpensiveRecord ==
    pc = "Reported" =>
        /\ Len(suggestions) = Cardinality(Expensive)
        /\ \A i \in Expensive :
              suggestions[Rank(i)] =
                  "Consider alternative transport for order ID "
                      \o supply_chain_data[i].order_id

C4_Witness ==
    /\ pc = "Reported"
    /\ Len(supply_chain_data) = 3
    /\ Expensive = {1, 3}
    /\ suggestions = <<"Consider alternative transport for order ID 1",
                       "Consider alternative transport for order ID 3">>

ChargedPlaneFactor(record) ==
    /\ Counted(record)
    /\ get_emissions_factor(record.transport_mode).val = FFromRatio(5, 100)

HasSuggestion(record) ==
    \E k \in 1..Len(suggestions) :
        suggestions[k] = "Consider alternative transport for order ID "
                             \o record.order_id

\* C5: the calculator and the insight generator agree on every record's
\* mode: a record charged the plane factor, whatever the case of the letters
\* of its transport_mode, yields a suggestion, and a record that yields no
\* suggestion is not charged the plane factor.
C5_ModeCaseInsensitiveThroughout ==
    pc = "Reported" =>
        \A i \in 1..Len(supply_chain_data) :
            ChargedPlaneFactor(supply_chain_data[i])
                => HasSuggestion(supply_chain_data[i])

\* C6: when load_data fails it raises, supply_chain_data holds no record of
\* the failed load, the run ends before calculate_carbon_footprint and
\* analyze_data are invoked, and a missing file is reported with a message
\* of its own.
C6_LoadFailureAborts ==
    /\ (file.status # "ok" /\ pc \notin {"Idle", "Loading"}) => pc = "Failed"
    /\ pc = "Failed" =>
          /\ supply_chain_data = <<>>
          /\ calls = 0 /\ idx = 0 /\ lookups = <<>> /\ suggestions = <<>>
          /\ carbon_footprint = FZero(0)
          /\ Len(output) = 1
          /\ output[1].kind = "error"
          /\ (file.status = "missing") <=>
                 (output[1].text = "An error occurred in processing: "
                     \o "The specified data file could not be found.")

C6_Witness ==
    /\ pc = "Failed"
    /\ file.status = "unreadable"
    /\ Len(file.rows) = 2
    /\ supply_chain_data = <<>>
    /\ output[1].text = "An error occurred in processing: "
                            \o "An error occurred while loading data."

\* C7: a run that reports the footprint exits with status 0 and every
\* aborted run exits with a non-zero status.
C7_ExitStatusTellsOutcome ==
    exit_status # <<>> =>
        /\ pc = "Reported" => exit_status[1] = 0
        /\ pc = "Failed" => exit_status[1] # 0

StageSteps ==
    { <<"Idle", "Loading">>, <<"Loading", "Calculating">>,
      <<"Calculating", "Calculating">>, <<"Calculating", "Analyzing">>,
      <<"Analyzing", "Reported">>,
      <<"Loading", "Failed">>, <<"Calculating", "Failed">>,
      <<"Analyzing", "Failed">> }

StageStep == <<pc, pc'>> \in StageSteps

Kinds(lines) == {lines[i].kind : i \in 1..Len(lines)}

\* C8: a run goes Idle, Loading, Calculating, Analyzing, Reported in that
\* order, or from a stage to Failed; a stage starts only after the one
\* before it succeeded; Reported and Failed are terminal and a run stops
\* nowhere else; a run that ends in Failed has printed one error line and
\* neither a suggestion nor the total.
C8_RunStateMachine ==
    /\ [][StageStep]_vars
    /\ [][pc = "Calculating" => idx' = idx + 1 \/ pc' # "Calculating"]_vars
    /\ [](pc \in {"Calculating", "Analyzing", "Reported"} =>
            file.status = "ok" /\ supply_chain_data = file.rows)
    /\ [](pc \in {"Analyzing", "Reported"} => idx = Len(supply_chain_data))
    /\ [](pc = "Reported" => suggestions = analyze_data(supply_chain_data))
    /\ [](pc = "Failed" =>
            Len(output) = 1 /\ Kinds(output) = {"error"})
    /\ [](pc = "Reported" =>
            "error" \notin Kinds(output) /\ output[Len(output)].kind = "total")
    /\ [](pc \notin {"Reported", "Failed"} => output = <<>>)
    /\ [](pc \in {"Reported", "Failed"} <=> ~CanStep)

C8_Witness ==
    /\ pc = "Failed"
    /\ file.status = "missing"
    /\ Kinds(output) = {"error"}

\* C9: within a run carbon_footprint is never negative and never decreases,
\* whatever the field values of the loaded records.
C9_FootprintMonotone ==
    /\ [](FLe(FZero(0), carbon_footprint))
    /\ [][FLe(carbon_footprint, carbon_footprint')]_vars

\* C10: for the same loaded records every invocation of
\* calculate_carbon_footprint leaves the same total in carbon_footprint,
\* whatever it held before and however often the calculator ran already.
C10_CalculatorDeterministic ==
    [][calls' = calls + 1 =>
          FEq(carbon_footprint',
              calculate_carbon_footprint(FZero(0), supply_chain_data).total)]_vars

=============================================================================
